---- MODULE Spec2Model ----
(***************************************************************************)
(* A model of crawl_thairath.py: the sitemap resolver (fetch_sitemap_urls  *)
(* with its recursive closure load_one), the section classifier            *)
(* (which_section), the id extraction (extract_id_from_url), the retrying  *)
(* fetch client (fetch_with_fast_retry), the article extractor             *)
(* (extract_article) and the crawl loop of main with the files it writes.  *)
(*                                                                         *)
(* Strings are modelled as sequences of atoms: an atom is a run of         *)
(* characters that the program's substring tests and its regular           *)
(* expression never split ("/", "money", "2024", ...).  Times are integer  *)
(* hours.                                                                  *)
(***************************************************************************)
EXTENDS Integers, Sequences, FiniteSets, TLC

VARIABLES
    pc,           \* position of the thread of control
    args,         \* parse_args(): [sitemap, since_days, sections_str, limit]
    env,          \* the process environment: [now, utc_offset, time]
    site,         \* the sitemap documents the server holds: url -> document
    max_sitemaps, \* fetch_sitemap_urls parameter
    seen,         \* fetch_sitemap_urls: seen
    urls,         \* fetch_sitemap_urls: urls (main: all_urls once returned)
    stack,        \* the activation records of load_one, innermost last
    fetched,      \* history: the sitemap GETs issued, in order: [url, timeout, ok]
    sections,     \* main: sections
    section_set,  \* main: section_set, as the sequence in which it iterates
    since_date,   \* main: since_date (naive local wall clock, hours)
    filtered,     \* main: filtered
    seen_locs,    \* main: seen_locs
    fi,           \* main: position of the filter loop in all_urls
    ci,           \* main: position of the crawl loop in filtered
    sec,          \* main: sec of the current candidate
    attempts,     \* fetch_with_fast_retry: the GETs of the current call
    slept,        \* fetch_with_fast_retry: time.sleep(0.2) has been done
    results,      \* main: results
    ok,           \* main: ok
    skip,         \* main: skip
    fail,         \* main: fail
    outcome,      \* history: per candidate fetched, "ok" when one of its
                  \* GETs succeeded, "fail" when both failed
    called,       \* history: the URLs fetch_with_fast_retry was called with
    written,      \* the CSV files written: section -> the rows of its file
    exit_status,  \* the exit status of the process, once main has returned
    input,        \* the arguments of a function called on its own
    output        \* the value that call returned

vars == <<pc, args, env, site, max_sitemaps, seen, urls, stack, fetched,
          sections, section_set, since_date, filtered, seen_locs, fi, ci, sec,
          attempts, slept, results, ok, skip, fail, outcome, called,
          written, exit_status, input, output>>

resolverVars == <<site, max_sitemaps, seen, urls, stack, fetched>>
mainVars == <<sections, section_set, since_date, filtered, seen_locs, fi, ci,
              sec, attempts, slept, results, ok, skip, fail, outcome, called>>
exitVars == <<written, exit_status>>
callVars == <<input, output>>

-----------------------------------------------------------------------------
(* Bounds of the model *)

\* longest <url> list of the crawled URL-set document
MaxEntries == 3
\* largest max_sitemaps the resolver is called with in SpecResolver
MaxCap == 4

-----------------------------------------------------------------------------
(* Python values *)

\* None, where a section name is expected
None == "None"

Range(s) == {s[i] : i \in DOMAIN s}

\* Python's `needle in hay` on strings
Contains(needle, hay) ==
    \E i \in 0..(Len(hay) - Len(needle)) :
        SubSeq(hay, i + 1, i + Len(needle)) = needle

\* the permutations of a finite set, as sequences without repetition
Perms(S) ==
    {p \in [1..Cardinality(S) -> S] : \A i, j \in DOMAIN p : p[i] = p[j] => i = j}

\* all sequences over S of length at most n
SeqsUpTo(S, n) == UNION {[1..k -> S] : k \in 0..n}

-----------------------------------------------------------------------------
(* Config: SUBFILTERS and SECTION_PREFIX *)

SectionNames == {"economics", "investment", "tech_innovation", "politic",
                 "personal_finance", "business_marketing"}

SECTION_PREFIX ==
    [s \in SectionNames |->
        CASE s = "economics"          -> <<"/", "money", "/", "economics">>
          [] s = "investment"         -> <<"/", "money", "/", "investment">>
          [] s = "tech_innovation"    -> <<"/", "money", "/", "tech_innovation">>
          [] s = "politic"            -> <<"/", "news", "/", "politic">>
          [] s = "personal_finance"   -> <<"/", "money", "/", "personal_finance">>
          [] s = "business_marketing" -> <<"/", "money", "/", "business_marketing">>]

SubfilterNeedle ==
    [s \in SectionNames |->
        CASE s = "economics" ->
                <<"/", "money", "/", "economics", "/", "thai_economics", "/">>
          [] s = "investment"         -> <<"/", "money", "/", "investment", "/">>
          [] s = "tech_innovation"    -> <<"/", "money", "/", "tech_innovation", "/">>
          [] s = "politic"            -> <<"/", "news", "/", "politic", "/">>
          [] s = "personal_finance"   -> <<"/", "money", "/", "personal_finance", "/">>
          [] s = "business_marketing" -> <<"/", "money", "/", "business_marketing", "/">>]

\* SUBFILTERS[s](u)
SUBFILTERS(s, u) == Contains(SubfilterNeedle[s], u)

\* timedelta(days=1), in hours
DayHours == 24
\* fetch_with_fast_retry: timeout of the first attempt
FastTimeout == 2
\* fetch_with_fast_retry: timeout of the second attempt
SlowTimeout == 3
\* load_one: timeout of a sitemap GET
SitemapTimeout == 10
\* fetch_sitemap_urls: default of max_sitemaps
DefaultMaxSitemaps == 500
\* main: default of --since-days
DefaultSinceDays == 1825
\* main: default of --limit
DefaultLimit == 0
\* the exit status of a process whose main() returned
ExitSuccess == 0
\* the exit status of a process that has not ended
NotExited == -1

-----------------------------------------------------------------------------
(* Dates: normalize/compare as the code does *)

\* the value of a lastmod variable: None, or a datetime with its wall clock
\* (hours) and, when timezone-aware, its UTC offset (hours)
NoneDt == [known |-> FALSE, wall |-> 0, aware |-> FALSE, off |-> 0]
Dt(w, a, o) == [known |-> TRUE, wall |-> w, aware |-> a, off |-> o]

\* the text of a <lastmod> element
NoLastmod == [kind |-> "absent", wall |-> 0, zone |-> "naive", off |-> 0]
EmptyLastmod == [kind |-> "notext", wall |-> 0, zone |-> "naive", off |-> 0]
GarbageLastmod == [kind |-> "garbage", wall |-> 0, zone |-> "naive", off |-> 0]
IsoNaive(w) == [kind |-> "iso", wall |-> w, zone |-> "naive", off |-> 0]
IsoZ(w) == [kind |-> "iso", wall |-> w, zone |-> "Z", off |-> 0]
IsoOffset(w, o) == [kind |-> "iso", wall |-> w, zone |-> "offset", off |-> o]

\* load_one, the lastmod of one <url>:
\*   lastmod = None; if the tag is there, try
\*   datetime.fromisoformat(text.replace('Z', '+00:00')), except: pass
ParseLastmod(raw) ==
    CASE raw.kind = "absent"  -> NoneDt
      [] raw.kind = "notext"  -> NoneDt
      [] raw.kind = "garbage" -> NoneDt
      [] raw.kind = "iso" /\ raw.zone = "naive"  -> Dt(raw.wall, FALSE, 0)
      [] raw.kind = "iso" /\ raw.zone = "Z"      -> Dt(raw.wall, TRUE, 0)
      [] raw.kind = "iso" /\ raw.zone = "offset" -> Dt(raw.wall, TRUE, raw.off)

\* dt.replace(tzinfo=None): the wall clock is kept, the offset is dropped
DropTz(dt) == [dt EXCEPT !.aware = FALSE, !.off = 0]

\* main line 198: item['lastmod'] and
\*   item['lastmod'].replace(tzinfo=None) < since_date.replace(tzinfo=None)
TooOld(lastmod, since) == lastmod.known /\ DropTz(lastmod).wall < since

-----------------------------------------------------------------------------
(* Section Classifier and id extraction *)

\* which_section without the sub-filter test of line 162
RECURSIVE which_section_prefix_only(_, _)
which_section_prefix_only(url, order) ==
    IF order = <<>> THEN None
    ELSE LET s == Head(order)
         IN  IF s \in SectionNames /\ Contains(SECTION_PREFIX[s], url)
             THEN s
             ELSE which_section_prefix_only(url, Tail(order))

\* which_section(url, sections_set): sections_set is given as the sequence
\* in which `for s in sections_set` yields its elements
RECURSIVE which_section(_, _)
which_section(url, order) ==
    IF order = <<>> THEN None
    ELSE LET s == Head(order)
             \* prefix = SECTION_PREFIX.get(s); prefix and prefix in url
             prefix_ok == s \in DOMAIN SECTION_PREFIX
                             /\ Contains(SECTION_PREFIX[s], url)
             \* sub_filter = SUBFILTERS.get(s); not sub_filter or sub_filter(url)
             filter_ok == s \notin DOMAIN SubfilterNeedle \/ SUBFILTERS(s, url)
         IN  IF prefix_ok /\ filter_ok
             THEN s
             ELSE which_section(url, Tail(order))

\* the atoms that are runs of decimal digits
DigitAtoms == {"7", "9", "55", "123", "2024"}
IsDigits(a) == a \in DigitAtoms
IsDelim(a) == a \in {"/", "?", "#"}

\* the end of the longest run of digit atoms of u that starts at position i
RECURSIVE DigitRunEnd(_, _)
DigitRunEnd(u, i) ==
    IF i <= Len(u) /\ IsDigits(u[i]) THEN DigitRunEnd(u, i + 1) ELSE i - 1

\* whether the pattern /(\d+)(?:$|[/?#]) matches u at position i
MatchesAt(u, i) ==
    /\ u[i] = "/"
    /\ LET e == DigitRunEnd(u, i + 1)
       IN  /\ e >= i + 1
           /\ (e = Len(u) \/ IsDelim(u[e + 1]))

\* extract_id_from_url(u): re.search returns the leftmost match; group 1 is
\* its digits; "" (the empty sequence) without a match
extract_id_from_url(u) ==
    LET hits == {i \in DOMAIN u : MatchesAt(u, i)}
    IN  IF hits = {} THEN <<>>
        ELSE LET i == CHOOSE k \in hits : \A j \in hits : k <= j
             IN  SubSeq(u, i + 1, DigitRunEnd(u, i + 1))

\* main line 218: extract_id_from_url(loc) or str(int(time.time()))
RecordId(loc, unix_time) ==
    IF extract_id_from_url(loc) # <<>> THEN extract_id_from_url(loc)
    ELSE <<unix_time>>

\* main line 185: [s.strip() for s in sections_str.split(',') if s.strip()];
\* sections_str is given as its comma-separated items, each a name with
\* blanks around it or not
RECURSIVE SplitSections(_)
SplitSections(items) ==
    IF items = <<>> THEN <<>>
    ELSE LET stripped == Head(items).name
         IN  IF stripped # "" THEN <<stripped>> \o SplitSections(Tail(items))
             ELSE SplitSections(Tail(items))

-----------------------------------------------------------------------------
(* The inputs: article URLs, sitemap documents, run parameters *)

Host == "https://www.thairath.co.th"
\* politic; two numeric path segments
uPol == <<Host, "/", "news", "/", "politic", "/", "2024", "/", "123">>
\* investment; one numeric path segment
uInv == <<Host, "/", "money", "/", "investment", "/", "9">>
\* matches the rules of investment and of politic; no numeric path segment
uBoth == <<Host, "/", "money", "/", "investment", "/", "news", "/", "politic", "/", "abc">>
\* contains the prefix of economics, not its sub-filter
uEco == <<Host, "/", "money", "/", "economics", "/", "55">>
\* no section
uSport == <<Host, "/", "sport", "/", "7">>

\* datetime.now() of the run (local wall clock, hours) and time.time()
NowWall == 20000 * DayHours
UnixTime == "1700000000"

\* a <sitemap> element: its <loc> child is there or not, with its text
\* ("" for an element without text)
Child(u) == [present |-> TRUE, text |-> u]
ChildNoLoc == [present |-> FALSE, text |-> ""]
ChildEmptyLoc == [present |-> TRUE, text |-> ""]

\* a <url> element: its <loc> child (text <<>> without text) and <lastmod>
Tag(u, lm) == [present |-> TRUE, text |-> u, lastmod |-> lm]
TagNoLoc == [present |-> FALSE, text |-> <<>>, lastmod |-> NoLastmod]
TagEmptyLoc == [present |-> TRUE, text |-> <<>>, lastmod |-> NoLastmod]

\* a sitemap document: well-formed XML or not, root element in a namespace
\* or not, its <sitemap> elements and its <url> elements in document order
Doc(sm, us) == [wellformed |-> TRUE, ns |-> TRUE, sitemaps |-> sm, urls |-> us]

tA == Tag(uPol, NoLastmod)
tB == Tag(uInv, IsoZ(NowWall - DayHours))
tC == Tag(uEco, GarbageLastmod)
tD == Tag(uSport, EmptyLastmod)

\* the sitemap graphs fetch_sitemap_urls is run on, root "A"
\* a cycle: A lists B, B lists A
SiteCycle ==
    ("A" :> Doc(<<Child("B")>>, <<tA>>)) @@ ("B" :> Doc(<<Child("A")>>, <<tB>>))
\* a self-reference
SiteSelf == ("A" :> Doc(<<Child("A")>>, <<tA>>))
\* a tree, one child listed twice
SiteTree ==
    ("A" :> Doc(<<Child("B"), Child("C"), Child("B")>>, <<>>))
        @@ ("B" :> Doc(<<>>, <<tB>>)) @@ ("C" :> Doc(<<>>, <<tC, tD>>))
\* a chain
SiteChain ==
    ("A" :> Doc(<<Child("B")>>, <<tA>>)) @@ ("B" :> Doc(<<Child("C")>>, <<tB>>))
        @@ ("C" :> Doc(<<Child("D")>>, <<tC>>)) @@ ("D" :> Doc(<<>>, <<tD>>))
\* a diamond: D is listed by B and by C
SiteDiamond ==
    ("A" :> Doc(<<Child("B"), Child("C")>>, <<tA>>))
        @@ ("B" :> Doc(<<Child("D")>>, <<tB>>))
        @@ ("C" :> Doc(<<Child("D")>>, <<tC>>)) @@ ("D" :> Doc(<<>>, <<tD>>))
\* a child that is not on the server, a <sitemap> without text in <loc>
SiteDangling ==
    ("A" :> Doc(<<Child("X"), ChildEmptyLoc, Child("B")>>, <<tA>>))
        @@ ("B" :> Doc(<<>>, <<tB>>))
\* a <sitemap> without <loc>; a <url> without <loc>, one without text
SiteNoLoc ==
    ("A" :> Doc(<<Child("B"), ChildNoLoc, Child("C")>>, <<tA>>))
        @@ ("B" :> Doc(<<>>, <<tB, TagEmptyLoc, tC, TagNoLoc, tD>>))
        @@ ("C" :> Doc(<<>>, <<tC>>))
\* a document without namespace, a document that is not XML
SiteBadXml ==
    ("A" :> Doc(<<Child("B"), Child("C")>>, <<tA>>))
        @@ ("B" :> [Doc(<<>>, <<tB>>) EXCEPT !.ns = FALSE])
        @@ ("C" :> [Doc(<<>>, <<tC>>) EXCEPT !.wellformed = FALSE])

ResolverSites == {SiteCycle, SiteSelf, SiteTree, SiteChain, SiteDiamond,
                  SiteDangling, SiteNoLoc, SiteBadXml}

-----------------------------------------------------------------------------
(* Sitemap Resolver: fetch_sitemap_urls and load_one *)

\* an activation of load_one(url): before the GET ("enter"), in the loop
\* over <sitemap> elements or in the loop over <url> elements, at element i
Frame(u) == [url |-> u, phase |-> "enter", i |-> 0]

Top == stack[Len(stack)]
TopDoc == site[Top.url]

\* the frame after element i of its loop: the next element, the next loop
NextElement(f) ==
    IF f.phase = "sitemaps" /\ f.i < Len(site[f.url].sitemaps)
    THEN [f EXCEPT !.i = f.i + 1]
    ELSE IF f.phase = "sitemaps" THEN [f EXCEPT !.phase = "urls", !.i = 1]
    ELSE [f EXCEPT !.i = f.i + 1]

\* the frame at the start of the loop over <sitemap> elements
FirstElement(f) ==
    IF site[f.url].sitemaps = <<>> THEN [f EXCEPT !.phase = "urls", !.i = 1]
    ELSE [f EXCEPT !.phase = "sitemaps", !.i = 1]

\* load_one returns (normally, or through its except clause); the outermost
\* return is the return of fetch_sitemap_urls
Return ==
    /\ stack' = SubSeq(stack, 1, Len(stack) - 1)
    /\ pc' = IF Len(stack) = 1 THEN "resolved" ELSE pc

\* the cap test off by one
CapReachedLate == Cardinality(seen) > max_sitemaps

\* line 89: if len(seen) >= max_sitemaps: return
CapReached == Cardinality(seen) >= max_sitemaps

\* load_one that takes a failed document out of the visited set
LoadOneEnterForgets ==
    /\ pc = "resolve" /\ stack # <<>> /\ Top.phase = "enter"
    /\ IF CapReached
       THEN /\ Return
            /\ fetched' = fetched
            /\ seen' = seen
       ELSE \E succeeded \in BOOLEAN :
            /\ succeeded => Top.url \in DOMAIN site
            /\ fetched' = Append(fetched, [url |-> Top.url,
                                           timeout |-> SitemapTimeout,
                                           ok |-> succeeded])
            /\ IF succeeded /\ TopDoc.wellformed /\ TopDoc.ns
               THEN /\ stack' = [stack EXCEPT ![Len(stack)] = FirstElement(Top)]
                    /\ pc' = pc
                    /\ seen' = seen
               ELSE /\ Return
                    /\ seen' = seen \ {Top.url}
    /\ UNCHANGED <<args, env, callVars, exitVars,
                   site, max_sitemaps, urls, mainVars>>

\* lines 89-98, 114-115: load_one is entered. At the cap it returns at once.
\* Else it issues the GET, which fails (timeout, status, transport; always
\* for a URL the server does not hold) or succeeds; ET.fromstring raises on
\* a malformed document, findall('.//ns:sitemap', {}) raises on a document
\* without namespace ("prefix 'ns' not found in prefix map")
LoadOneEnter ==
    /\ pc = "resolve" /\ stack # <<>> /\ Top.phase = "enter"
    /\ IF CapReached
       THEN /\ Return
            /\ fetched' = fetched
       ELSE \E succeeded \in BOOLEAN :
            /\ succeeded => Top.url \in DOMAIN site
            /\ fetched' = Append(fetched, [url |-> Top.url,
                                           timeout |-> SitemapTimeout,
                                           ok |-> succeeded])
            /\ IF succeeded /\ TopDoc.wellformed /\ TopDoc.ns
               THEN /\ stack' = [stack EXCEPT ![Len(stack)] = FirstElement(Top)]
                    /\ pc' = pc
               ELSE Return
    /\ UNCHANGED <<args, env, callVars, exitVars,
                   site, max_sitemaps, seen, urls, mainVars>>

\* lines 98-102: one <sitemap> element
LoadOneSitemap ==
    /\ pc = "resolve" /\ stack # <<>> /\ Top.phase = "sitemaps"
    /\ LET sm == TopDoc.sitemaps[Top.i]
           loc == sm.text
       IN  IF ~sm.present
           THEN \* find() is None: .text raises
                /\ Return
                /\ seen' = seen
           ELSE IF loc # "" /\ loc \notin seen
           THEN /\ seen' = seen \cup {loc}
                /\ stack' = [stack EXCEPT ![Len(stack)] = NextElement(Top)]
                               \o <<Frame(loc)>>
                /\ pc' = pc
           ELSE /\ seen' = seen
                /\ stack' = [stack EXCEPT ![Len(stack)] = NextElement(Top)]
                /\ pc' = pc
    /\ UNCHANGED <<args, env, callVars, exitVars,
                   site, max_sitemaps, urls, fetched, mainVars>>

\* lines 105-113: one <url> element
LoadOneUrl ==
    /\ pc = "resolve" /\ stack # <<>> /\ Top.phase = "urls"
    /\ Top.i <= Len(TopDoc.urls)
    /\ LET tag == TopDoc.urls[Top.i]
       IN  IF ~tag.present
           THEN /\ Return
                /\ urls' = urls
           ELSE /\ urls' = IF tag.text # <<>>
                           THEN Append(urls, [loc |-> tag.text,
                                              lastmod |-> ParseLastmod(tag.lastmod)])
                           ELSE urls
                /\ stack' = [stack EXCEPT ![Len(stack)] = NextElement(Top)]
                /\ pc' = pc
    /\ UNCHANGED <<args, env, callVars, exitVars,
                   site, max_sitemaps, seen, fetched, mainVars>>

\* the end of the loop over <url> elements: load_one returns
LoadOneReturn ==
    /\ pc = "resolve" /\ stack # <<>> /\ Top.phase = "urls"
    /\ Top.i > Len(TopDoc.urls)
    /\ Return
    /\ UNCHANGED <<args, env, callVars, exitVars,
                   site, max_sitemaps, seen, urls, fetched, mainVars>>

NextResolver ==
    \/ LoadOneEnter
    \/ LoadOneSitemap
    \/ LoadOneUrl
    \/ LoadOneReturn

\* main's variables before main has run
MainIdle ==
    /\ sections = <<>> /\ section_set = <<>> /\ since_date = 0
    /\ filtered = <<>> /\ seen_locs = {} /\ fi = 0 /\ ci = 0 /\ sec = None
    /\ attempts = <<>> /\ slept = FALSE /\ results = <<>>
    /\ ok = 0 /\ skip = 0 /\ fail = 0 /\ outcome = <<>> /\ called = <<>>
    /\ written = <<>> /\ exit_status = NotExited

\* no function is called on its own
CallIdle == input = <<>> /\ output = <<>>

\* fetch_sitemap_urls(root_url, max_sitemaps) at line 117, about to call
\* load_one(root_url)
ResolverEntry(root_url, cap) ==
    /\ max_sitemaps = cap
    /\ seen = {}
    /\ urls = <<>>
    /\ stack = <<Frame(root_url)>>
    /\ fetched = <<>>

\* a call fetch_sitemap_urls("A", cap) on its own
InitResolver ==
    /\ pc = "resolve"
    /\ args = [sitemap |-> "A", since_days |-> DefaultSinceDays,
               sections_str |-> <<>>, limit |-> DefaultLimit]
    /\ env = [now |-> NowWall, utc_offset |-> 0, time |-> UnixTime]
    /\ site \in ResolverSites
    /\ \E cap \in 0..MaxCap : ResolverEntry("A", cap)
    /\ MainIdle
    /\ CallIdle

SpecResolver == InitResolver /\ [][NextResolver]_vars

-----------------------------------------------------------------------------
(* Properties of the Sitemap Resolver (SpecResolver) *)

\* every sitemap GET succeeded
AllFetchesOk == \A i \in DOMAIN fetched : fetched[i].ok

\* a document that load_one processes to its end without an exception
DocClean(d) ==
    /\ d.wellformed /\ d.ns
    /\ \A i \in DOMAIN d.sitemaps : d.sitemaps[i].present
    /\ \A i \in DOMAIN d.urls : d.urls[i].present

\* the entries a document's <url> elements yield
DocEntries(d) ==
    {[loc |-> d.urls[i].text, lastmod |-> ParseLastmod(d.urls[i].lastmod)] :
        i \in {k \in DOMAIN d.urls : d.urls[k].present /\ d.urls[k].text # <<>>}}

\* how often entry e is in the returned list
Occurrences(e) == Cardinality({i \in DOMAIN urls : urls[i] = e})

\* C1: on the cycle A -> B -> A, with every GET succeeding, the resolution
\* returns every URL-set entry of A and of B exactly once
C1_CycleEntriesOnce ==
    (pc = "resolved" /\ site = SiteCycle /\ max_sitemaps >= 2 /\ AllFetchesOk)
        => \A e \in DocEntries(SiteCycle["A"]) \cup DocEntries(SiteCycle["B"]) :
               Occurrences(e) = 1

\* C2: during one call of fetch_sitemap_urls no sitemap URL is fetched by
\* load_one more than once
C2_NoSitemapFetchedTwice ==
    \A i, j \in DOMAIN fetched : fetched[i].url = fetched[j].url => i = j

\* C3: the number of sitemap documents fetched never exceeds max_sitemaps; once
\* the cap is reached no further GET is issued; the calls in progress still
\* finish: every document fetched and processed to its end has its entries in
\* the returned list
C3_FetchesWithinCap ==
    /\ [](Len(fetched) <= max_sitemaps)
    /\ [][CapReached => fetched' = fetched]_vars
    /\ [](pc = "resolved" =>
            \A i \in DOMAIN fetched :
                (fetched[i].ok /\ DocClean(site[fetched[i].url]))
                    => DocEntries(site[fetched[i].url]) \subseteq Range(urls))

\* the cap refused a child while two calls were in progress, whose entries
\* were returned
C3_Witness ==
    /\ pc = "resolved" /\ site = SiteDiamond /\ max_sitemaps = 2
    /\ Len(fetched) = 2 /\ AllFetchesOk
    /\ Cardinality(seen) > max_sitemaps
    /\ Len(urls) = 2

-----------------------------------------------------------------------------
(* Article Extractor: extract_article, normalize_date, csv_escape *)

\* Text is a sequence of characters; "SP" is a blank, "NL" a newline
Whitespace == {"SP", "NL"}

\* a value that is a str, or None where the code lets None through
Str(s) == [isnone |-> FALSE, s |-> s]
PyNone == [isnone |-> TRUE, s |-> <<>>]

\* str.strip()
RECURSIVE LStrip(_)
LStrip(s) ==
    IF s # <<>> /\ Head(s) \in Whitespace THEN LStrip(Tail(s)) ELSE s
RECURSIVE RStrip(_)
RStrip(s) ==
    IF s # <<>> /\ s[Len(s)] \in Whitespace
    THEN RStrip(SubSeq(s, 1, Len(s) - 1)) ELSE s
Strip(s) == RStrip(LStrip(s))

\* "\n".join(parts)
RECURSIVE Join(_)
Join(parts) ==
    IF parts = <<>> THEN <<>>
    ELSE IF Len(parts) = 1 THEN parts[1]
    ELSE parts[1] \o <<"NL">> \o Join(Tail(parts))

\* s.replace('\n', ' ')
ReplaceNewlines(s) == [i \in DOMAIN s |-> IF s[i] = "NL" THEN "SP" ELSE s[i]]

\* lines 50-53: csv_escape(val), val a str or None
csv_escape(val) ==
    IF val.isnone THEN <<>> ELSE Strip(ReplaceNewlines(val.s))

\* lines 55-62: normalize_date(date_str); None is returned for a falsy or
\* unparsable string; isoformat() writes a UTC datetime read from "Z" with
\* the offset "+00:00"
normalize_date(date_str) ==
    CASE date_str.kind = "absent"  -> PyNone
      [] date_str.kind = "notext"  -> PyNone
      [] date_str.kind = "garbage" -> PyNone
      [] date_str.kind = "iso" /\ date_str.zone = "naive" ->
            Str(IsoNaive(date_str.wall))
      [] date_str.kind = "iso" /\ date_str.zone = "Z" ->
            Str(IsoOffset(date_str.wall, 0))
      [] date_str.kind = "iso" /\ date_str.zone = "offset" ->
            Str(IsoOffset(date_str.wall, date_str.off))

\* a <meta> element found by soup.find, with or without a content attribute
NoMeta == [present |-> FALSE, has_content |-> FALSE, content |-> <<>>]
MetaNoContent == [present |-> TRUE, has_content |-> FALSE, content |-> <<>>]
Meta(c) == [present |-> TRUE, has_content |-> TRUE, content |-> c]

\* tag.get("content"): None without the attribute
GetContent(tag) == IF tag.has_content THEN Str(tag.content) ELSE PyNone
\* tag.get("content", "")
GetContentOrEmpty(tag) == IF tag.has_content THEN tag.content ELSE <<>>

\* soup.h1 and its get_text()
NoH1 == [present |-> FALSE, text |-> <<>>]
H1(t) == [present |-> TRUE, text |-> t]

\* soup.select_one(sel): None, or the first element matching the selector
\* with the get_text() of each <p> find_all('p') returns
NoContainer == [present |-> FALSE, ps |-> <<>>]
Container(ps) == [present |-> TRUE, ps |-> ps]

\* line 135
candidates == <<"main", "article", ".article-content", ".content-article">>

\* line 139: [p.get_text().strip() for p in ps if len(p.get_text().strip()) > 2]
RECURSIVE Paragraphs(_)
Paragraphs(ps) ==
    IF ps = <<>> THEN <<>>
    ELSE (IF Len(Strip(Head(ps))) > 2 THEN <<Strip(Head(ps))>> ELSE <<>>)
            \o Paragraphs(Tail(ps))

\* the loop leaving at the first container found, with or without paragraphs
RECURSIVE ContentLoopFirstContainer(_, _)
ContentLoopFirstContainer(html, k) ==
    IF k > Len(candidates) THEN <<>>
    ELSE LET container == html.containers[candidates[k]]
         IN  IF container.present
             THEN Join(Paragraphs(container.ps))
             ELSE ContentLoopFirstContainer(html, k + 1)

\* lines 134-143: the loop over the candidates from the k-th on; content
\* stays "" when the loop ends without a break
RECURSIVE ContentLoop(_, _)
ContentLoop(html, k) ==
    IF k > Len(candidates) THEN <<>>
    ELSE LET container == html.containers[candidates[k]]
             paragraphs == Paragraphs(container.ps)
         IN  IF container.present /\ paragraphs # <<>>
             THEN Join(paragraphs)
             ELSE ContentLoop(html, k + 1)

\* lines 120-155: extract_article(html, url); html is the parsed page
extract_article(html, url) ==
    LET headline ==
            IF html.og_title.present THEN GetContent(html.og_title)
            ELSE IF html.h1.present THEN Str(Strip(html.h1.text))
            ELSE Str(<<>>)
        date_str == html.pub_time
        published_iso == normalize_date(date_str)
        content == ContentLoop(html, 1)
        desc == IF html.og_description.present THEN html.og_description
                ELSE html.description
        summary == IF desc.present THEN Strip(GetContentOrEmpty(desc)) ELSE <<>>
    IN  [url |-> url,
         headline |-> headline,
         summary |-> summary,
         content |-> content,
         published_iso |-> IF published_iso.isnone THEN EmptyLastmod
                           ELSE published_iso.s]

\* the text of <p> elements: two characters between blanks, three
\* characters, a text with a newline inside, a text ending in a newline
pShort == <<"SP", "a", "b", "SP">>
pLong == <<"a", "b", "c">>
pMulti == <<"SP", "x", "NL", "y", "z">>
pTail == <<"d", "e", "f", "NL">>

\* a parsed page: what the finds and selects of extract_article return on it
Page(og_title, h1, pub_time, og_description, description, containers) ==
    [og_title |-> og_title, h1 |-> h1, pub_time |-> pub_time,
     og_description |-> og_description, description |-> description,
     containers |-> containers]

\* the containers of a page, by selector in the order of candidates
Containers(m, a, ac, ca) ==
    [sel \in Range(candidates) |->
        CASE sel = "main" -> m
          [] sel = "article" -> a
          [] sel = ".article-content" -> ac
          [] sel = ".content-article" -> ca]

NoContainers == Containers(NoContainer, NoContainer, NoContainer, NoContainer)

\* a page with none of the elements extract_article looks for
EmptyPage == Page(NoMeta, NoH1, NoLastmod, NoMeta, NoMeta, NoContainers)

\* fetch_text(url): the page the server returns for an article URL
PageOf(url) ==
    CASE url = uPol ->
            Page(Meta(<<"H", "SP", "p">>), H1(<<"T">>),
                 IsoZ(NowWall - DayHours), Meta(<<"SP", "D", "SP">>), NoMeta,
                 Containers(NoContainer, Container(<<pLong, pMulti>>),
                            NoContainer, NoContainer))
      [] url = uBoth ->
            Page(MetaNoContent, H1(<<"SP", "T", "SP">>), GarbageLastmod,
                 NoMeta, Meta(<<"N">>),
                 Containers(Container(<<pShort>>), Container(<<pLong>>),
                            NoContainer, NoContainer))
      [] url = uInv ->
            Page(NoMeta, H1(<<"SP", "T", "NL">>), NoLastmod,
                 MetaNoContent, Meta(<<"N">>),
                 Containers(NoContainer, NoContainer, NoContainer,
                            Container(<<pTail>>)))
      [] OTHER -> EmptyPage

-----------------------------------------------------------------------------
(* Crawl Orchestrator: main *)

\* one comma-separated item of --sections: a name, blanks around it or not
Item(n) == [name |-> n, blanks |-> FALSE]
Padded(n) == [name |-> n, blanks |-> TRUE]

\* line 187: since_date = datetime.now() - timedelta(days=since_days)
SinceDate(now, since_days) == now - since_days * DayHours

\* line 197 without the test of seen_locs
IsNewCandidateNoDedup(item, order, locs) ==
    which_section(item.loc, order) # None

\* line 197: sec and item['loc'] not in seen_locs
IsNewCandidate(item, order, locs) ==
    which_section(item.loc, order) # None /\ item.loc \notin locs

\* lines 173-190: the arguments are read; without --sitemap main prints an
\* error and returns; else it calls fetch_sitemap_urls(sitemap_url)
MainStart ==
    /\ pc = "start"
    /\ IF args.sitemap = ""
       THEN /\ pc' = "done"
            /\ exit_status' = ExitSuccess
            /\ UNCHANGED <<resolverVars, mainVars>>
       ELSE /\ pc' = "resolve"
            /\ exit_status' = exit_status
            /\ sections' = SplitSections(args.sections_str)
            \* set(sections): the order in which a set of strings iterates
            \* is not defined (it follows the strings' randomized hashes)
            /\ section_set' \in Perms(Range(sections'))
            /\ since_date' = SinceDate(env.now, args.since_days)
            /\ max_sitemaps' = DefaultMaxSitemaps
            /\ seen' = {}
            /\ urls' = <<>>
            /\ stack' = <<Frame(args.sitemap)>>
            /\ fetched' = <<>>
            /\ fi' = 1
            /\ UNCHANGED <<site, filtered, seen_locs, ci, sec, attempts, slept,
                           results, ok, skip, fail, outcome, called>>
    /\ UNCHANGED <<args, env, callVars, written>>

\* lines 195-201: one item of all_urls
FilterItem ==
    /\ pc = "resolved" /\ fi <= Len(urls)
    /\ LET item == urls[fi]
       IN  IF IsNewCandidate(item, section_set, seen_locs)
              /\ ~TooOld(item.lastmod, since_date)
           THEN /\ filtered' = Append(filtered, item)
                /\ seen_locs' = seen_locs \cup {item.loc}
           ELSE UNCHANGED <<filtered, seen_locs>>
    /\ fi' = fi + 1
    /\ UNCHANGED <<pc, args, env, callVars, exitVars, resolverVars, sections,
                   section_set, since_date, ci, sec, attempts, slept,
                   results, ok, skip, fail, outcome, called>>

\* lines 204-205: the end of the filter loop
FilterDone ==
    /\ pc = "resolved" /\ fi > Len(urls)
    /\ ok' = 0 /\ skip' = 0 /\ fail' = 0
    /\ results' = [s \in Range(sections) |-> <<>>]
    /\ ci' = 1
    /\ pc' = "crawl"
    /\ UNCHANGED <<args, env, callVars, exitVars,
                   resolverVars, sections, section_set, since_date,
                   filtered, seen_locs, fi, sec, attempts, slept, outcome, called>>

\* lines 207-212: the next candidate; fetch_with_fast_retry(loc) is called
CrawlNext ==
    /\ pc = "crawl" /\ ci <= Len(filtered)
    /\ sec' = which_section(filtered[ci].loc, section_set)
    /\ attempts' = <<>>
    /\ slept' = FALSE
    /\ called' = Append(called, filtered[ci].loc)
    /\ pc' = "fetch1"
    /\ UNCHANGED <<args, env, callVars, exitVars,
                   resolverVars, sections, section_set, since_date,
                   filtered, seen_locs, fi, ci, results, ok, skip, fail, outcome>>

\* one GET of fetch_text(url, timeout), as fetch_with_fast_retry sees it
Get(timeout, succeeded) ==
    attempts' = Append(attempts, [url |-> filtered[ci].loc, timeout |-> timeout,
                                  ok |-> succeeded])

\* line 77: return fetch_text(url, timeout=2)
Fetch1Ok ==
    /\ pc = "fetch1"
    /\ Get(FastTimeout, TRUE)
    /\ outcome' = Append(outcome, "ok")
    /\ pc' = "extract"
    /\ UNCHANGED <<args, env, callVars, exitVars,
                   resolverVars, sections, section_set, since_date,
                   filtered, seen_locs, fi, ci, sec, slept, results, ok, skip,
                   fail, called>>

\* lines 77-78: the first GET raises
Fetch1Fail ==
    /\ pc = "fetch1"
    /\ Get(FastTimeout, FALSE)
    /\ pc' = "cooldown"
    /\ UNCHANGED <<args, env, callVars, exitVars,
                   resolverVars, sections, section_set, since_date,
                   filtered, seen_locs, fi, ci, sec, slept, results, ok, skip,
                   fail, outcome, called>>

\* the retry without its cooldown
CooldownSkipped ==
    /\ pc = "cooldown"
    /\ pc' = "fetch2"
    /\ UNCHANGED <<args, env, callVars, exitVars,
                   resolverVars, sections, section_set, since_date,
                   filtered, seen_locs, fi, ci, sec, attempts, slept, results,
                   ok, skip, fail, outcome, called>>

\* line 79: time.sleep(0.2)
Cooldown ==
    /\ pc = "cooldown"
    /\ slept' = TRUE
    /\ pc' = "fetch2"
    /\ UNCHANGED <<args, env, callVars, exitVars,
                   resolverVars, sections, section_set, since_date,
                   filtered, seen_locs, fi, ci, sec, attempts, results, ok, skip,
                   fail, outcome, called>>

\* line 80: return fetch_text(url, timeout=3)
Fetch2Ok ==
    /\ pc = "fetch2"
    /\ Get(SlowTimeout, TRUE)
    /\ outcome' = Append(outcome, "ok")
    /\ pc' = "extract"
    /\ UNCHANGED <<args, env, callVars, exitVars,
                   resolverVars, sections, section_set, since_date,
                   filtered, seen_locs, fi, ci, sec, slept, results, ok, skip,
                   fail, called>>

\* a failure that ends the loop over the candidates
ArticleFailedBreaks ==
    /\ fail' = fail + 1
    /\ ci' = Len(filtered) + 1
    /\ pc' = "crawl"
    /\ UNCHANGED <<results, ok>>

\* lines 231-233: except Exception: fail += 1, and on to the next candidate
ArticleFailed ==
    /\ fail' = fail + 1
    /\ ci' = ci + 1
    /\ pc' = "crawl"
    /\ UNCHANGED <<results, ok>>

\* line 80: the second GET raises, out of fetch_with_fast_retry
Fetch2Fail ==
    /\ pc = "fetch2"
    /\ Get(SlowTimeout, FALSE)
    /\ outcome' = Append(outcome, "fail")
    /\ ArticleFailed
    /\ UNCHANGED <<args, env, callVars, exitVars,
                   resolverVars, sections, section_set, since_date,
                   filtered, seen_locs, fi, sec, slept, skip, called>>

\* lines 215-224: the record of the current candidate
Record(loc, section, unix_time, meta) ==
    [agency |-> "thairath", section |-> section,
     id |-> RecordId(loc, unix_time),
     published_iso |-> meta.published_iso,
     headline |-> meta.headline,
     summary |-> meta.summary,
     content |-> meta.content,
     url |-> loc]

\* lines 213-229: extract, build the record, results[sec].append(record);
\* results[sec] raises KeyError when sec is no key of results
RecordArticle ==
    /\ pc = "extract"
    /\ IF sec \in DOMAIN results
       THEN /\ LET loc == filtered[ci].loc
                   html == PageOf(loc)
                   meta == extract_article(html, loc)
               IN  results' = [results EXCEPT
                                  ![sec] = Append(@, Record(loc, sec, env.time, meta))]
            /\ ok' = ok + 1
            /\ ci' = ci + 1
            /\ pc' = "crawl"
            /\ fail' = fail
       ELSE ArticleFailed
    /\ UNCHANGED <<args, env, callVars, exitVars,
                   resolverVars, sections, section_set, since_date,
                   filtered, seen_locs, fi, sec, attempts, slept, skip, outcome,
                   called>>

\* csv.DictWriter writes str(value) for a value, the empty string for None
CsvCell(val) == IF val.isnone THEN <<>> ELSE val.s

\* lines 242-244: the row writer.writerows writes for one record; the id and
\* the date are written as they are
CsvRow(record) ==
    [agency |-> record.agency, section |-> record.section, id |-> record.id,
     published_iso |-> record.published_iso,
     headline |-> CsvCell(record.headline),
     summary |-> CsvCell(Str(record.summary)),
     content |-> CsvCell(Str(record.content)),
     url |-> CsvCell(Str(record.url))]

\* lines 235-249: after the last candidate one file is written for each
\* section that has records, main returns and the process ends
CrawlDone ==
    /\ pc = "crawl" /\ ci > Len(filtered)
    /\ pc' = "done"
    /\ written' = [s \in {t \in DOMAIN results : results[t] # <<>>} |->
                      [k \in DOMAIN results[s] |-> CsvRow(results[s][k])]]
    /\ exit_status' = ExitSuccess
    /\ UNCHANGED <<args, env, callVars, resolverVars, mainVars>>

Next ==
    \/ MainStart
    \/ LoadOneEnter
    \/ LoadOneSitemap
    \/ LoadOneUrl
    \/ LoadOneReturn
    \/ FilterItem
    \/ FilterDone
    \/ CrawlNext
    \/ Fetch1Ok
    \/ Fetch1Fail
    \/ Cooldown
    \/ Fetch2Ok
    \/ Fetch2Fail
    \/ RecordArticle
    \/ CrawlDone

\* the <url> elements of the crawled site
MainTags == {
    Tag(uPol, NoLastmod),
    Tag(uPol, IsoZ(NowWall - 40 * DayHours)),
    Tag(uBoth, IsoNaive(NowWall - DayHours)),
    Tag(uInv, IsoOffset(NowWall - 30 * DayHours + 3, 7)),
    Tag(uEco, NoLastmod)
}

\* the crawled site: the index A lists the URL set B
MainSite(tags) == ("A" :> Doc(<<Child("B")>>, <<>>)) @@ ("B" :> Doc(<<>>, tags))

SectionStrs == {
    <<Item("investment"), Item("politic")>>,
    <<Padded("politic"), Padded(""), Item("investment")>>,
    <<Item("economics"), Item("sports"), Item("economics")>>
}

\* the state before main runs
Init ==
    /\ pc = "start"
    /\ \/ /\ args \in [sitemap : {"A"}, since_days : {30, DefaultSinceDays},
                       sections_str : SectionStrs, limit : {DefaultLimit}]
                        \cup [sitemap : {"A"}, since_days : {DefaultSinceDays},
                              sections_str : {<<Item("investment"), Item("politic")>>},
                              limit : {1}]
          /\ env = [now |-> NowWall, utc_offset |-> 0, time |-> UnixTime]
          /\ site \in {MainSite(tags) : tags \in SeqsUpTo(MainTags, MaxEntries)}
       \/ /\ args = [sitemap |-> "", since_days |-> DefaultSinceDays,
                     sections_str |-> <<Item("politic")>>, limit |-> DefaultLimit]
          /\ env = [now |-> NowWall, utc_offset |-> 0, time |-> UnixTime]
          /\ site = MainSite(<<Tag(uPol, NoLastmod)>>)
    /\ max_sitemaps = DefaultMaxSitemaps
    /\ seen = {} /\ urls = <<>> /\ stack = <<>> /\ fetched = <<>>
    /\ MainIdle
    /\ CallIdle

Spec == Init /\ [][Next]_vars

-----------------------------------------------------------------------------
(* extract_article called on its own (SpecExtract) *)

\* the containers a selector may find
ContainerOptions == {
    NoContainer,
    Container(<<>>),
    Container(<<pShort>>),
    Container(<<pLong>>),
    Container(<<pShort, pTail>>),
    Container(<<pLong, pMulti>>)
}

\* pages that differ in their containers
ContentPages ==
    {Page(NoMeta, NoH1, NoLastmod, NoMeta, NoMeta, c) :
        c \in [Range(candidates) -> ContainerOptions]}

\* pages that differ in their <meta> and <h1> elements
HeadPages ==
    {Page(t, h, p, od, d, NoContainers) :
        t \in {NoMeta, MetaNoContent, Meta(<<>>), Meta(<<"H", "SP", "p">>)},
        h \in {NoH1, H1(<<"SP", "T", "SP">>)},
        p \in {NoLastmod, GarbageLastmod, IsoZ(NowWall), IsoNaive(NowWall)},
        od \in {NoMeta, MetaNoContent, Meta(<<"SP", "D", "SP">>)},
        d \in {NoMeta, Meta(<<"N">>)}}

\* extract_article(html, url) is about to be called
InitExtract ==
    /\ pc = "call"
    /\ input \in [html : ContentPages \cup HeadPages, url : {uPol}]
    /\ output = <<>>
    /\ args = [sitemap |-> "", since_days |-> DefaultSinceDays,
               sections_str |-> <<>>, limit |-> DefaultLimit]
    /\ env = [now |-> NowWall, utc_offset |-> 0, time |-> UnixTime]
    /\ site = MainSite(<<>>)
    /\ max_sitemaps = DefaultMaxSitemaps
    /\ seen = {} /\ urls = <<>> /\ stack = <<>> /\ fetched = <<>>
    /\ MainIdle

\* lines 120-155: the call returns the meta record
ExtractArticleCall ==
    /\ pc = "call"
    /\ pc' = "returned"
    /\ output' = extract_article(input.html, input.url)
    /\ UNCHANGED <<args, env, input, exitVars, resolverVars, mainVars>>

NextExtract == ExtractArticleCall

SpecExtract == InitExtract /\ [][NextExtract]_vars

\* C12: the headline extract_article returns is a string, never None: the
\* content of the og:title element when the page has one with content, else
\* the trimmed text of the first <h1>, else the empty string
C12_HeadlineIsString ==
    pc = "returned" =>
        /\ ~output.headline.isnone
        /\ output.headline.s =
              (IF input.html.og_title.present /\ input.html.og_title.has_content
               THEN input.html.og_title.content
               ELSE IF input.html.h1.present THEN Strip(input.html.h1.text)
               ELSE <<>>)

\* the trimmed texts, longer than 2 characters, of the <p> elements of a
\* container
Qualifying(container) ==
    LET long == SelectSeq(container.ps, LAMBDA p : Len(Strip(p)) > 2)
    IN  [i \in DOMAIN long |-> Strip(long[i])]

\* the positions in candidates of the selectors that find a container with
\* at least one qualifying paragraph
Yielding(html) ==
    {k \in DOMAIN candidates :
        /\ html.containers[candidates[k]].present
        /\ Qualifying(html.containers[candidates[k]]) # <<>>}

\* C14: the content is the newline-joined qualifying paragraphs of the first
\* selector, in the order main, article, .article-content, .content-article,
\* whose container has at least one qualifying paragraph; it is empty exactly
\* when no selector yields one
C14_ContentFromFirstYieldingSelector ==
    pc = "returned" =>
        LET yielding == Yielding(input.html)
            first == CHOOSE k \in yielding : \A j \in yielding : k <= j
        IN  /\ yielding = {} <=> output.content = <<>>
            /\ yielding # {} =>
                  output.content =
                      Join(Qualifying(input.html.containers[candidates[first]]))

\* main matches but has no qualifying paragraph, article has two, and
\* .article-content has one: the content is that of article
C14_Witness ==
    /\ pc = "returned"
    /\ input.html.containers["main"] = Container(<<pShort>>)
    /\ input.html.containers["article"] = Container(<<pLong, pMulti>>)
    /\ input.html.containers[".article-content"] = Container(<<pLong>>)
    /\ output.content = <<"a", "b", "c", "NL", "x", "NL", "y", "z">>

-----------------------------------------------------------------------------
(* Properties of the Crawl Orchestrator (Spec) *)

\* main is past line 205: the counters and the result map are set
Crawling == pc \in {"crawl", "fetch1", "cooldown", "fetch2", "extract"}
CrawlEnded == pc = "done" /\ args.sitemap # ""

\* the places of the result map: section and position in its list
RecordSlots == UNION {{<<s, k>> : k \in DOMAIN results[s]} : s \in DOMAIN results}

\* the places that hold a record with the given url
RecordsOf(u) == {x \in RecordSlots : results[x[1]][x[2]].url = u}

\* all records of the result map
AllRecords == {results[x[1]][x[2]] : x \in RecordSlots}

NoRepeat(q) == \A i, j \in DOMAIN q : q[i] = q[j] => i = j

\* C4: the filtered candidate list holds each location at most once, and no
\* URL is fetched as an article twice in one run
C4_CandidatesDistinct ==
    /\ NoRepeat([i \in DOMAIN filtered |-> filtered[i].loc])
    /\ NoRepeat(called)

\* a location listed twice (both occurrences acceptable) was fetched once
C4_Witness ==
    /\ CrawlEnded
    /\ \E i, j \in DOMAIN urls :
          /\ i < j /\ urls[i].loc = urls[j].loc
          /\ ~urls[i].lastmod.known /\ ~urls[j].lastmod.known
          /\ urls[i].loc \in Range(called)
    /\ Len(called) = 1

\* the candidates the loop is done with
Processed == 1..(ci - 1)

\* C5: a failing candidate does not end the crawl: every candidate whose fetch
\* succeeded has exactly one record, every candidate whose two GETs failed has
\* none, fail counts the failing candidates, and at the end ok + fail is the
\* number of candidates
C5_FailureIsolated ==
    (Crawling \/ CrawlEnded) =>
        /\ Processed \subseteq DOMAIN outcome
        /\ Processed \subseteq DOMAIN filtered
        /\ \A i \in Processed :
              Cardinality(RecordsOf(filtered[i].loc)) =
                  IF outcome[i] = "ok" THEN 1 ELSE 0
        /\ fail = Cardinality({i \in Processed : outcome[i] = "fail"})
        /\ ok = Cardinality({i \in Processed : outcome[i] = "ok"})
        /\ CrawlEnded => /\ Len(outcome) = Len(filtered)
                         /\ Processed = DOMAIN filtered
                         /\ ok + fail = Len(filtered)

\* candidate 2 of 3 failed both attempts, candidates 1 and 3 have records
C5_Witness ==
    /\ CrawlEnded
    /\ Len(filtered) = 3
    /\ outcome = <<"ok", "fail", "ok">>
    /\ fail = 1 /\ ok = 2
    /\ RecordsOf(filtered[1].loc) # {} /\ RecordsOf(filtered[3].loc) # {}
    /\ RecordsOf(filtered[2].loc) = {}

\* C6: the section of a candidate is the first one of the caller's
\* comma-separated list (in the list's order) whose rule matches the URL
C6_CallerOrderDecides ==
    /\ (pc \in {"fetch1", "cooldown", "fetch2", "extract"})
          => sec = which_section(filtered[ci].loc, sections)
    /\ (Crawling \/ CrawlEnded)
          => \A r \in AllRecords : r.section = which_section(r.url, sections)

\* the instant (UTC hours) a datetime denotes; a naive one is local time
Instant(dt) == dt.wall - (IF dt.aware THEN dt.off ELSE env.utc_offset)

\* lastmod is known and older than now minus sinceDays
OlderThanWindow(lastmod) ==
    /\ lastmod.known
    /\ Instant(lastmod) < (env.now - env.utc_offset) - args.since_days * DayHours

\* C7: an entry whose lastmod is known and older than now - sinceDays is never
\* a candidate; an entry without lastmod that classifies to a requested
\* section has its location among the candidates
C7_RecencyRule ==
    /\ \A i \in DOMAIN filtered : ~OlderThanWindow(filtered[i].lastmod)
    /\ pc \in {"resolved", "crawl", "fetch1", "cooldown", "fetch2", "extract"} =>
          \A k \in 1..(fi - 1) :
              (~urls[k].lastmod.known /\ which_section(urls[k].loc, section_set) # None)
                  => \E i \in DOMAIN filtered : filtered[i].loc = urls[k].loc

\* C8: every stored record has a requested section, is in the list of exactly
\* that section, and its url satisfies that section's rule; the section looked
\* up at record time is never absent
C8_RecordsMatchTheirSection ==
    /\ (Crawling \/ CrawlEnded) =>
          \A s \in DOMAIN results : \A k \in DOMAIN results[s] :
              LET r == results[s][k]
              IN  /\ r.section = s
                  /\ s \in Range(sections)
                  /\ s \in SectionNames
                  /\ Contains(SECTION_PREFIX[s], r.url)
                  /\ SUBFILTERS(s, r.url)
    /\ pc \in {"fetch1", "cooldown", "fetch2", "extract"} =>
          sec # None /\ sec \in DOMAIN results

\* a record of a URL that matches two requested sections, and a URL with a
\* requested section's prefix that its sub-filter rejects, left out
C8_Witness ==
    /\ CrawlEnded
    /\ \E r \in AllRecords : r.url = uBoth
    /\ \E r \in AllRecords : r.url = uPol

\* the positions of the numeric path segments of u
NumericSegments(u) == {i \in DOMAIN u : MatchesAt(u, i)}

\* the last purely numeric path segment of u
LastNumericSegment(u) ==
    LET i == CHOOSE k \in NumericSegments(u) : \A j \in NumericSegments(u) : j <= k
    IN  SubSeq(u, i + 1, DigitRunEnd(u, i + 1))

\* C9: the id of every record is non-empty and is the last purely numeric path
\* segment of its URL; without one it is the Unix time as a string
C9_IdIsLastNumericSegment ==
    (Crawling \/ CrawlEnded) =>
        \A r \in AllRecords :
            /\ r.id # <<>>
            /\ r.id = IF NumericSegments(r.url) # {}
                      THEN LastNumericSegment(r.url)
                      ELSE <<env.time>>

\* the state of a call of fetch_with_fast_retry: its GETs so far, and where
\* the call stands
C10_RetryState ==
    /\ Len(attempts) <= 2
    /\ \A i \in DOMAIN attempts : attempts[i].url = called[Len(called)]
    /\ Len(attempts) >= 1 => attempts[1].timeout = FastTimeout
    /\ Len(attempts) = 2 =>
          /\ attempts[2].timeout = SlowTimeout
          /\ attempts[1].timeout < attempts[2].timeout
          /\ ~attempts[1].ok
          /\ slept
    /\ pc = "extract" => (attempts # <<>> /\ attempts[Len(attempts)].ok)
    /\ (attempts # <<>> /\ attempts[Len(attempts)].ok) =>
          pc \in {"extract", "crawl", "done"}
    /\ pc = "cooldown" <=> (Len(attempts) = 1 /\ ~attempts[1].ok /\ ~slept)
    /\ pc = "fetch2" <=> (Len(attempts) = 1 /\ ~attempts[1].ok /\ slept)
    /\ (Len(attempts) = 2 /\ ~attempts[2].ok) =>
          /\ pc \in {"crawl", "done"}
          /\ outcome[Len(outcome)] = "fail"

\* C10: a call of fetch_with_fast_retry issues at most two GETs of its URL, the
\* first with the short timeout; the second, with the longer timeout, only
\* after the first failed and the cooldown is over; a GET that succeeds ends
\* the call with the body, and after a second failure the call is left with
\* the failure
C10_FastThenSlowRetry ==
    /\ []C10_RetryState
    /\ [][Len(attempts') > Len(attempts) =>
            \/ attempts = <<>>
            \/ Len(attempts) = 1 /\ ~attempts[1].ok /\ slept]_vars

\* both attempts were made and failed
C10_Witness ==
    /\ Len(attempts) = 2 /\ ~attempts[1].ok /\ ~attempts[2].ok
    /\ pc = "crawl" /\ fail >= 1

-----------------------------------------------------------------------------
(* Failures in the Sitemap Resolver (SpecResolver) *)

\* the fetched[i] whose processing ran to the end of load_one
Completed(i) == fetched[i].ok /\ DocClean(site[fetched[i].url])

\* the number of entries a document's <url> elements yield
NumEntries(d) ==
    Cardinality({k \in DOMAIN d.urls : d.urls[k].present /\ d.urls[k].text # <<>>})

\* the number of entries of the first n GETs whose processing was completed
RECURSIVE EntriesOfCompleted(_)
EntriesOfCompleted(n) ==
    IF n = 0 THEN 0
    ELSE EntriesOfCompleted(n - 1)
           + (IF Completed(n) THEN NumEntries(site[fetched[n].url]) ELSE 0)

\* C11: a document whose fetch or processing failed contributes no entry, and
\* the entries of every other document fetched are returned: the returned list
\* holds the entries of the documents processed to their end, and nothing else;
\* the children of those documents are all fetched (below the cap)
C11_FailedDocumentContributesNothing ==
    pc = "resolved" =>
        /\ Len(urls) = EntriesOfCompleted(Len(fetched))
        /\ \A i \in DOMAIN fetched :
              Completed(i) => DocEntries(site[fetched[i].url]) \subseteq Range(urls)
        /\ Cardinality(seen) < max_sitemaps =>
              \A i \in DOMAIN fetched : Completed(i) =>
                  \A k \in DOMAIN site[fetched[i].url].sitemaps :
                      LET c == site[fetched[i].url].sitemaps[k].text
                      IN  c # "" => \E j \in DOMAIN fetched : fetched[j].url = c


\* the GETs of child documents that failed: the GET itself, or the processing
\* of the document it returned
FailedChildGets == {i \in DOMAIN fetched : i > 1 /\ ~Completed(i)}

C19_SingleAttempt ==
    /\ \A i \in DOMAIN fetched : fetched[i].timeout = SitemapTimeout
    /\ \A i \in FailedChildGets :
          /\ fetched[i].url \in seen
          /\ \A j \in DOMAIN fetched : j > i => fetched[j].url # fetched[i].url

\* C19: a sitemap document is fetched by one GET with the sitemap timeout and
\* without the fast-then-slow retry; a child document whose GET or processing
\* failed stays in the visited set and is never fetched again in the resolution
C19_FailedSitemapNeverRefetched ==
    [](pc \in {"resolve", "resolved"} => C19_SingleAttempt)
      /\ [][pc = "resolve" => seen \subseteq seen']_vars

\* child B of the tree (listed twice by A) failed at its GET, its sibling C was
\* fetched after it and the resolution has ended
C19_Witness ==
    /\ pc = "resolved" /\ site = SiteTree
    /\ \E i \in FailedChildGets :
          /\ fetched[i].url = "B" /\ ~fetched[i].ok
          /\ \E j \in DOMAIN fetched : j > i /\ fetched[j].url = "C"


-----------------------------------------------------------------------------
(* The end of the run, the files written and the limit (Spec) *)

\* no GET was issued and no record produced
NoActivity ==
    /\ fetched = <<>> /\ called = <<>> /\ attempts = <<>>
    /\ RecordSlots = {} /\ written = <<>>

\* C13: a run without the sitemap parameter ends before any GET and any
\* record, with a non-zero exit status; a run that has its sitemap ends with
\* status zero, whatever article fetches failed
C13_MissingSitemapExitsNonZero ==
    pc = "done" =>
        /\ args.sitemap = "" => NoActivity /\ exit_status # ExitSuccess
        /\ args.sitemap # "" => exit_status = ExitSuccess


\* the text fields of a record, as the values csv_escape takes
TextFields(record) ==
    [headline |-> record.headline, summary |-> Str(record.summary),
     content |-> Str(record.content), url |-> Str(record.url)]

\* C15: in every row written, each text field is the record's field with its
\* newlines collapsed to blanks and trimmed (csv_escape), so that no written
\* field holds a newline
C15_WrittenFieldsHaveNoNewline ==
    pc = "done" =>
        \A s \in DOMAIN written : \A k \in DOMAIN written[s] :
            \A f \in DOMAIN TextFields(results[s][k]) :
                /\ written[s][k][f] = csv_escape(TextFields(results[s][k])[f])
                /\ "NL" \notin Range(written[s][k][f])

\* the program is fetching or recording a candidate
InArticle == pc \in {"fetch1", "cooldown", "fetch2", "extract"}

\* C16: with a positive limit no more than limit articles are recorded and no
\* candidate is fetched once limit articles are recorded; with limit 0 every
\* candidate has been attempted when the run ends
C16_LimitBoundsTheCrawl ==
    /\ args.limit > 0 =>
          /\ Cardinality(RecordSlots) <= args.limit
          /\ Cardinality(RecordSlots) = args.limit => ~InArticle
    /\ args.limit = DefaultLimit /\ pc = "done" /\ args.sitemap # "" =>
          Len(called) = Len(filtered)


-----------------------------------------------------------------------------
(* which_section called on its own (SpecClassify) *)

\* for each section: a URL its sub-filter accepts, a URL that ends with its
\* prefix, a URL where the prefix is followed by something else than "/"
ClassifyUrls ==
    {<<Host>> \o SubfilterNeedle[s] \o <<"9">> : s \in SectionNames}
        \cup {<<Host>> \o SECTION_PREFIX[s] : s \in SectionNames}
        \cup {<<Host>> \o SECTION_PREFIX[s] \o <<"-x", "/", "9">> : s \in SectionNames}
        \cup {uPol, uInv, uBoth, uEco, uSport}

\* the requested sections, in iteration order; "sports" has no rule
ClassifyOrders == SeqsUpTo(SectionNames \cup {"sports"}, 2)

\* which_section(url, sections_set) is about to be called
InitClassify ==
    /\ pc = "call"
    /\ input \in [url : ClassifyUrls, order : ClassifyOrders]
    /\ output = <<>>
    /\ args = [sitemap |-> "", since_days |-> DefaultSinceDays,
               sections_str |-> <<>>, limit |-> DefaultLimit]
    /\ env = [now |-> NowWall, utc_offset |-> 0, time |-> UnixTime]
    /\ site = MainSite(<<>>)
    /\ max_sitemaps = DefaultMaxSitemaps
    /\ seen = {} /\ urls = <<>> /\ stack = <<>> /\ fetched = <<>>
    /\ MainIdle

\* lines 157-164: the call returns a section name or None
WhichSectionCall ==
    /\ pc = "call"
    /\ pc' = "returned"
    /\ output' = which_section(input.url, input.order)
    /\ UNCHANGED <<args, env, input, exitVars, resolverVars, mainVars>>

NextClassify == WhichSectionCall

SpecClassify == InitClassify /\ [][NextClassify]_vars

\* the requested sections that have a rule
Requested(order) == Range(order) \cap SectionNames

\* C17: for each of the six rules the URL contains the prefix if and only if
\* the sub-filter accepts it, and a URL containing the prefix of a requested
\* section is classified
C17_FilterAndPrefixCoincide ==
    pc = "returned" =>
        /\ \A s \in SectionNames :
              Contains(SECTION_PREFIX[s], input.url) <=> SUBFILTERS(s, input.url)
        /\ (\E s \in Requested(input.order) : Contains(SECTION_PREFIX[s], input.url))
              => output # None

\* C17 amended: for each of the six rules the sub-filter accepts a URL only if
\* the URL contains the prefix, and a URL is classified exactly when the
\* sub-filter of a requested section accepts it, into such a section
C17_FilterImpliesPrefix ==
    pc = "returned" =>
        /\ \A s \in SectionNames :
              SUBFILTERS(s, input.url) => Contains(SECTION_PREFIX[s], input.url)
        /\ output # None <=>
              \E s \in Requested(input.order) : SUBFILTERS(s, input.url)
        /\ output # None =>
              output \in Requested(input.order) /\ SUBFILTERS(output, input.url)

\* a URL with the prefix of economics that its sub-filter rejects, economics
\* requested: not classified
C17_Witness ==
    /\ pc = "returned"
    /\ input.url = uEco /\ input.order = <<"economics">>
    /\ Contains(SECTION_PREFIX["economics"], input.url)
    /\ ~SUBFILTERS("economics", input.url)
    /\ output = None


-----------------------------------------------------------------------------
(* Candidates and the occurrences of their location (Spec) *)

\* the filter loop has read a prefix of all_urls
Filtering == pc = "resolved" \/ Crawling \/ CrawlEnded

\* the k-th entry of the resolver output classifies to a requested section
\* and passes the recency rule: no lastmod, or one not older than the window
Acceptable(k) ==
    /\ which_section(urls[k].loc, section_set) # None
    /\ ~OlderThanWindow(urls[k].lastmod)

\* the candidates are the locations that have an occurrence satisfying Ok,
\* each with the lastmod of its first such occurrence
CandidatesAre(Ok(_)) ==
    /\ \A k \in 1..(fi - 1) :
          (\E i \in DOMAIN filtered : filtered[i].loc = urls[k].loc)
              <=> \E j \in 1..(fi - 1) : urls[j].loc = urls[k].loc /\ Ok(j)
    /\ \A i \in DOMAIN filtered :
          \E k \in 1..(fi - 1) :
              /\ urls[k].loc = filtered[i].loc /\ Ok(k)
              /\ \A j \in 1..(k - 1) : urls[j].loc = filtered[i].loc => ~Ok(j)
              /\ filtered[i].lastmod = urls[k].lastmod

\* C18: a location is a candidate if and only if one of its occurrences in the
\* resolver output classifies to a requested section and passes the recency
\* rule; occurrences rejected by recency do not hide a later acceptable one,
\* and the candidate carries the lastmod of the first acceptable occurrence
C18_CandidateIffAcceptableOccurrence ==
    Filtering => CandidatesAre(Acceptable)

====
